---- MODULE Spec2Model ----
(***************************************************************************)
(* Model of the service worker of the web-vitals extension                 *)
(* (src/service_worker.js): the badge animation started by animateBadges,  *)
(* the badge renderers badgeOverallPerf / badgeMetric, the tab liveness    *)
(* check doesTabExist and the chrome.runtime.onMessage listener.           *)
(*                                                                         *)
(* Numbers.  Metric values are JavaScript numbers; the model keeps them as *)
(* fixed-point integers counting 1/Scale units, so 0.1 is Scale \div 10    *)
(* and 2500 is 2500 * Scale.                                               *)
(*                                                                         *)
(* Scheduling.  The service worker runs on one event loop.  Every action   *)
(* below is one task of that loop: a listener invocation, the continuation *)
(* of animateBadges after one await, or one chrome API callback.          *)
(*  - wait(delay) is setTimeout with the one delay of 2000 ms, so the      *)
(*    timers of all runs fire in the order in which they were set.         *)
(*  - The callbacks of chrome.tabs.query are delivered in the order of the *)
(*    calls.  A continuation of animateBadges neither reads the badge nor  *)
(*    the pending calls and only appends to them, so it commutes with a    *)
(*    pending callback; the model lets the pending callbacks run before    *)
(*    the next continuation.  Messages and tab removals arrive at any time.*)
(*  - The callback of chrome.tabs.get interleaves freely with timers and   *)
(*    messages.                                                            *)
(*                                                                         *)
(* Bound.  MaxGen caps globalAnimationId: animateBadges is not entered     *)
(* once MaxGen ids were handed out.                                        *)
(***************************************************************************)
EXTENDS Integers, Sequences, FiniteSets, TLC

VARIABLES
  globalAnimationId,   \* let globalAnimationId
  animationsByTabId,   \* const animationsByTabId = new Map()
  runs,                \* the animateBadges runs started by the message listener
  timers,              \* the runs suspended in wait(delay), oldest timer first
  queries,             \* chrome.tabs.query calls whose callback has not run yet
  badge,               \* per tab: the action icon, badge text and badge colour
  lastRender,          \* per tab: animationId of the latest render call (history)
  openTabs,            \* the tabs the browser has open
  storage,             \* chrome.storage.local
  response,            \* the sendResponse calls of the listener for the last message
  scripting            \* the chrome.scripting.executeScript calls of the last tab event

vars == <<globalAnimationId, animationsByTabId, runs, timers, queries, badge,
          lastRender, openTabs, storage, response, scripting>>

----------------------------------------------------------------------------
(* Bounds of the model *)

MaxTab == 2
MaxGen == 3

Tabs == 1..MaxTab

----------------------------------------------------------------------------
(* Constants of the program *)

Scale == 10000

LCP_THRESHOLD == 2500 * Scale
FID_THRESHOLD == 100 * Scale
CLS_THRESHOLD == Scale \div 10

Undefined == "undefined"
\* Map.prototype.get of a key that was never set; not an animationId
NoEntry == 0 - 1
\* the listener returned without calling sendResponse
NoResponse == << >>

ManifestIcon == "default_icon"
SlowIcon == "../../icons/slow128w.png"
FastIcon == "../../icons/fast128w.png"
DefaultIcon == "../../icons/default128w.png"
LcpIcon == "../../icons/slow128w-lcp.png"
ClsIcon == "../../icons/slow128w-cls.png"
FidIcon == "../../icons/slow128w-fid.png"
BrowserColor == "browser default"

----------------------------------------------------------------------------
(* hashCode (lines 25-36).  A string is the sequence of its UTF-16 code    *)
(* units.  The 32-bit value of hash is kept as two 16-bit halves <<hi, lo>>*)
(* so that no intermediate product leaves the integer range.               *)

Half == 65536

\* hash << 5 (line 32): the low 32 bits of hash * 32
ShiftLeft5(h) == <<(h[1] * 32 + h[2] \div 2048) % Half, (h[2] * 32) % Half>>

\* hash = (hash << 5) + hash + char; hash = hash & hash
HashStep_plus(h, char) ==
  LET s  == ShiftLeft5(h)
      lo == s[2] + h[2] + char
      hi == s[1] + h[1] + (lo \div Half)
  IN  <<hi % Half, lo % Half>>

\* hash = (hash << 5) - hash + char; hash = hash & hash   (lines 32-33)
\* The difference and the sum are exact in a JavaScript number; hash & hash
\* keeps their low 32 bits.  lo may be negative: \div rounds down and %
\* is never negative, which is the borrow from the high half.
HashStep(h, char) ==
  LET s  == ShiftLeft5(h)
      lo == s[2] - h[2] + char
      hi == s[1] - h[1] + (lo \div Half)
  IN  <<hi % Half, lo % Half>>

RECURSIVE HashFold(_, _, _)
HashFold(h, str, i) ==
  IF i > Len(str) THEN h ELSE HashFold(HashStep(h, str[i]), str, i + 1)

\* the signed 32-bit integer whose two's complement halves are h
ToInt32(h) ==
  IF h[1] >= Half \div 2 THEN (h[1] - Half) * Half + h[2]
                         ELSE h[1] * Half + h[2]

hashCode(str) ==
  IF Len(str) = 0 THEN ""
  ELSE ToString(ToInt32(HashFold(<<0, 0>>, str, 1)))

----------------------------------------------------------------------------
(* Number.prototype.toFixed(2) as used by badgeMetric (lines 161, 175,     *)
(* 189): the decimal string with two fraction digits, rounded to the       *)
(* nearest hundredth, the larger one on a tie.  perHundredth is the number *)
(* of units of value that make one hundredth of the printed number.  The   *)
(* inputs of the model hold no value half-way between two hundredths: for  *)
(* those the digit depends on the double nearest to the decimal value.     *)

Pad2(n) == IF n < 10 THEN "0" \o ToString(n) ELSE ToString(n)

\* the digits after the second fraction digit cut off
toFixed2_trunc(value, perHundredth) ==
  LET n == value \div perHundredth
  IN  ToString(n \div 100) \o "." \o Pad2(n % 100)

toFixed2(value, perHundredth) ==
  LET n == (value + perHundredth \div 2) \div perHundredth
  IN  ToString(n \div 100) \o "." \o Pad2(n % 100)

----------------------------------------------------------------------------
(* The badge renderers (lines 85-209).  Both call chrome.tabs.query and do *)
(* their work in its callback; a pending call is a record of queries.      *)

\* const currentTab = tabid || tabs[0].id;   (lines 90, 135)
CurrentTab(tabid, active) == IF tabid # 0 THEN tabid ELSE active

\* the early returns of badgeMetric, lines 140-148: the callback goes on
\* to the switch only for a metric above its threshold
PassesFilter_lt(metric, value) ==
  /\ ~(metric = "cls" /\ value < CLS_THRESHOLD)
  /\ ~(metric = "lcp" /\ value < LCP_THRESHOLD)
  /\ ~(metric = "fid" /\ value < FID_THRESHOLD)

PassesFilter(metric, value) ==
  /\ ~(metric = "cls" /\ value <= CLS_THRESHOLD)
  /\ ~(metric = "lcp" /\ value <= LCP_THRESHOLD)
  /\ ~(metric = "fid" /\ value <= FID_THRESHOLD)

\* every case of the switch clears the badge text
OverallBadge_clear(b, badgeCategory) ==
  CASE badgeCategory = "POOR" -> [b EXCEPT !.icon = SlowIcon, !.text = ""]
    [] badgeCategory = "GOOD" -> [b EXCEPT !.icon = FastIcon, !.text = ""]
    [] OTHER                  -> [b EXCEPT !.icon = DefaultIcon, !.text = ""]

\* the switch of badgeOverallPerf, lines 92-119, applied to one tab's badge
OverallBadge(b, badgeCategory) ==
  CASE badgeCategory = "POOR" -> [b EXCEPT !.icon = SlowIcon, !.text = ""]
    [] badgeCategory = "GOOD" -> [b EXCEPT !.icon = FastIcon]
    [] OTHER                  -> [b EXCEPT !.icon = DefaultIcon, !.text = ""]

\* the switch of badgeMetric, lines 150-207, applied to one tab's badge
MetricBadge(b, metric, value) ==
  CASE metric = "lcp" ->
         [icon |-> LcpIcon, color |-> "#000",
          text |-> toFixed2(value, Scale * 10)]
    [] metric = "cls" ->
         [icon |-> ClsIcon, color |-> "#000",
          text |-> toFixed2(value, Scale \div 100)]
    [] metric = "fid" ->
         [icon |-> FidIcon, color |-> "#000",
          text |-> toFixed2(value, Scale \div 100)]
    [] OTHER ->
         [icon |-> DefaultIcon, color |-> "", text |-> ""]

\* the callback of a pending chrome.tabs.query call q, applied to all badges
QueryCallback(bs, q, active) ==
  LET currentTab == CurrentTab(q.tabid, active)
  IN  IF q.fn = "badgeOverallPerf"
      THEN [bs EXCEPT ![currentTab] = OverallBadge(@, q.arg)]
      ELSE IF PassesFilter(q.arg, q.value)
           THEN [bs EXCEPT ![currentTab] = MetricBadge(@, q.arg, q.value)]
           ELSE bs

\* badgeOverallPerf(badgeCategory, tabid): the call itself, line 86
badgeOverallPerf(qs, badgeCategory, tabid) ==
  Append(qs, [fn |-> "badgeOverallPerf", arg |-> badgeCategory,
              value |-> 0, tabid |-> tabid])

\* badgeMetric(metric, value, tabid): the call itself, line 131
badgeMetric(qs, metric, value, tabid) ==
  Append(qs, [fn |-> "badgeMetric", arg |-> metric,
              value |-> value, tabid |-> tabid])

----------------------------------------------------------------------------
(* Inputs: the messages of the content script and the tab URLs *)

\* request.metrics, flattened: lcp stands for metrics.lcp.value, and so on
Metrics(lcp, fid, cls) == [lcp |-> lcp, fid |-> fid, cls |-> cls]

\* lcp and cls above their thresholds, fid exactly at its threshold
Payload1 == Metrics(3000 * Scale, 100 * Scale, Scale \div 4)
\* lcp and cls exactly at their thresholds, fid just above its threshold
Payload2 == Metrics(2500 * Scale, 100 * Scale + 1, Scale \div 10)

\* a request without passesAllThresholds is some other message
OtherMessage ==
  [passesAllThresholds |-> Undefined, metrics |-> Metrics(0, 0, 0)]

Requests ==
  { [passesAllThresholds |-> "POOR", metrics |-> Payload1],
    [passesAllThresholds |-> "POOR", metrics |-> Payload2],
    [passesAllThresholds |-> "GOOD", metrics |-> Payload1],
    [passesAllThresholds |-> "NEEDS_IMPROVEMENT", metrics |-> Payload2],
    OtherMessage }

\* sender.tab.url as code units; <<>> stands for an absent or empty URL
Urls == { <<>>, <<104, 116>> }

----------------------------------------------------------------------------
(* State of one run of animateBadges.                                      *)
(*   tabId, request, animationId : the parameters and the local constant   *)
(*   pc      : the await the run is suspended at, or how it returned       *)
(*   startId : the animationId allocated when the listener started the run *)
(*   iter    : number of times the run entered animateBadges               *)
(*   calls   : number of calls of badgeOverallPerf / badgeMetric           *)
(*   late    : number of badge-changing render calls made after a later    *)
(*             run was started for the same tab                            *)
(*   stale   : the run rendered or went on with animationId not current    *)
(* startId, iter, calls, late and stale are history, the code has no such  *)
(* fields.                                                                 *)

Suspended == {"wait_lcp", "wait_fid", "wait_cls", "wait_loop", "doesTabExist"}
Returned == {"returned", "superseded", "tabGone"}

\* a later run of the message listener exists for the tab of run r
Superseded(rs, r) == \E r2 \in (r + 1)..Len(rs) : rs[r2].tabId = rs[r].tabId

\* if (animationsByTabId.get(tabId) !== animationId) return;  (253,257,261,266)
IsCurrent_always(table, tabId, animationId) == TRUE

\* the check compares with the latest animationId of any tab
IsCurrent_global(table, tabId, animationId) ==
  animationId = globalAnimationId - 1

IsCurrent(table, tabId, animationId) == table[tabId] = animationId

\* !chrome.runtime.lastError in the callback of chrome.tabs.get (line 227)
doesTabExist_always(tabId, open) == TRUE

doesTabExist(tabId, open) == tabId \in open

\* if (request.passesAllThresholds === 'POOR')   (line 251)
Animates_notGood(request) == request.passesAllThresholds # "GOOD"

Animates(request) == request.passesAllThresholds = "POOR"

\* chrome.storage.local.set({[key]: value})   (line 282)
StorageSet_keep(store, key, value) == store @@ (key :> value)

StorageSet(store, key, value) == (key :> value) @@ store

\* wait(ms), lines 217-219, always called with delay = 2000 (line 247):
\* timers of one delay fire in the order in which they were set
\* the timer is never set
wait_lost(ts, r) == ts

wait(ts, r) == Append(ts, r)

\* globalAnimationId++ (line 245)
NextAnimationId_same(id) == id

NextAnimationId(id) == id + 1

----------------------------------------------------------------------------
Init ==
  /\ globalAnimationId = 0
  /\ animationsByTabId = [t \in Tabs |-> NoEntry]
  /\ runs = <<>>
  /\ timers = <<>>
  /\ queries = <<>>
  /\ badge = [t \in Tabs |->
               [icon |-> ManifestIcon, color |-> BrowserColor, text |-> ""]]
  /\ lastRender = [t \in Tabs |-> NoEntry]
  /\ openTabs = Tabs
  /\ storage = << >>
  /\ response = NoResponse
  /\ scripting = << >>

(***************************************************************************)
(* animateBadges(request, tabId) up to its first await or its return       *)
(* (lines 242-252 and 270-271), executed for run number r; self holds the  *)
(* history of the run, wasCurrent whether the caller's animationId was     *)
(* the current one of the tab when it made the call.                       *)
(***************************************************************************)
animateBadges(request, tabId, r, self, wasCurrent) ==
  LET animationId == globalAnimationId
      run == [tabId |-> tabId, request |-> request,
              animationId |-> animationId,
              pc |-> IF Animates(request) THEN "wait_lcp" ELSE "returned",
              startId |-> IF self.iter = 0 THEN animationId ELSE self.startId,
              iter |-> self.iter + 1,
              calls |-> self.calls + 1,
              late |-> IF r <= Len(runs) /\ Superseded(runs, r)
                       THEN self.late + 1 ELSE self.late,
              stale |-> self.stale \/ ~wasCurrent]
  IN  /\ globalAnimationId < MaxGen
      /\ animationsByTabId' = [animationsByTabId EXCEPT ![tabId] = animationId]
      /\ globalAnimationId' = NextAnimationId(globalAnimationId)
      /\ queries' = badgeOverallPerf(queries, request.passesAllThresholds, tabId)
      /\ lastRender' = [lastRender EXCEPT ![tabId] = animationId]
      /\ runs' = IF r <= Len(runs) THEN [runs EXCEPT ![r] = run]
                                   ELSE Append(runs, run)
      /\ timers' = IF run.pc = "wait_lcp" THEN wait(timers, r) ELSE timers

NewRun == [iter |-> 0, calls |-> 0, late |-> 0, stale |-> FALSE]

(***************************************************************************)
(* chrome.runtime.onMessage listener (lines 274-287), for a message of the *)
(* content script of an open tab.                                          *)
(***************************************************************************)
OnMessage(request, tabId, url) ==
  /\ tabId \in openTabs
  /\ IF request.passesAllThresholds # Undefined
     THEN /\ animateBadges(request, tabId, Len(runs) + 1, NewRun, TRUE)
          /\ storage' = IF url # <<>>
                        THEN StorageSet(storage, hashCode(url), request.metrics)
                        ELSE storage
          /\ response' = <<[tabId |-> tabId]>>
     ELSE /\ response' = NoResponse
          /\ UNCHANGED <<globalAnimationId, animationsByTabId, runs, timers,
                         queries, lastRender, storage>>
  /\ UNCHANGED <<badge, openTabs, scripting>>

(***************************************************************************)
(* The continuation of run r after "await wait(delay)" before the step of  *)
(* a metric: the check of the animationId and the call of badgeMetric      *)
(* (lines 252-254, 256-258, 260-262).                                      *)
(***************************************************************************)
MetricStep(r, pc, metric, next) ==
  LET self == runs[r]
      value == self.request.metrics[metric]
      shows == PassesFilter(metric, value)
  IN  /\ self.pc = pc
      /\ timers # <<>> /\ Head(timers) = r
      /\ queries = <<>>
      /\ IF ~IsCurrent(animationsByTabId, self.tabId, self.animationId)
         THEN /\ runs' = [runs EXCEPT ![r].pc = "superseded"]
              /\ timers' = Tail(timers)
              /\ UNCHANGED <<queries, lastRender>>
         ELSE /\ queries' = badgeMetric(queries, metric, value, self.tabId)
              /\ timers' = wait(Tail(timers), r)
              /\ runs' = [runs EXCEPT
                   ![r].pc = next,
                   ![r].calls = @ + 1,
                   ![r].stale = @ \/ self.animationId # animationsByTabId[self.tabId],
                   ![r].late = IF shows /\ Superseded(runs, r) THEN @ + 1 ELSE @]
              /\ lastRender' = IF shows
                               THEN [lastRender EXCEPT ![self.tabId] = self.animationId]
                               ELSE lastRender
      /\ UNCHANGED <<globalAnimationId, animationsByTabId, badge, openTabs,
                     storage, response, scripting>>

AfterWaitLcp(r) == MetricStep(r, "wait_lcp", "lcp", "wait_fid")

\* the fid step goes on to the delay before the loop-back
AfterWaitFid_skip(r) == MetricStep(r, "wait_fid", "fid", "wait_loop")

AfterWaitFid(r) == MetricStep(r, "wait_fid", "fid", "wait_cls")

AfterWaitCls(r) == MetricStep(r, "wait_cls", "cls", "wait_loop")

(***************************************************************************)
(* The continuation after the fourth wait (lines 265-268): the check of    *)
(* the animationId and the call of doesTabExist.                           *)
(***************************************************************************)
AfterWaitLoop(r) ==
  LET self == runs[r]
  IN  /\ self.pc = "wait_loop"
      /\ timers # <<>> /\ Head(timers) = r
      /\ queries = <<>>
      /\ timers' = Tail(timers)
      /\ runs' = [runs EXCEPT ![r].pc =
                   IF IsCurrent(animationsByTabId, self.tabId, self.animationId)
                   THEN "doesTabExist" ELSE "superseded"]
      /\ UNCHANGED <<globalAnimationId, animationsByTabId, queries, badge,
                     lastRender, openTabs, storage, response, scripting>>

(***************************************************************************)
(* The callback of chrome.tabs.get and the continuation after              *)
(* "await doesTabExist(tabId)" (lines 227, 268-269).                       *)
(***************************************************************************)
AfterDoesTabExist(r) ==
  LET self == runs[r]
  IN  /\ self.pc = "doesTabExist"
      /\ queries = <<>>
      /\ IF ~doesTabExist(self.tabId, openTabs)
         THEN /\ runs' = [runs EXCEPT ![r].pc = "tabGone"]
              /\ UNCHANGED <<globalAnimationId, animationsByTabId, timers,
                             queries, lastRender>>
         ELSE animateBadges(self.request, self.tabId, r, self,
                IsCurrent(animationsByTabId, self.tabId, self.animationId))
      /\ UNCHANGED <<badge, openTabs, storage, response, scripting>>

(***************************************************************************)
(* The callback of the oldest pending chrome.tabs.query call (lines 89-120 *)
(* and 134-208).  active is the id of tabs[0], the active tab of the       *)
(* current window as the browser reports it.                               *)
(***************************************************************************)
TabsQueryCallback(active) ==
  /\ queries # <<>>
  /\ badge' = QueryCallback(badge, Head(queries), active)
  /\ queries' = Tail(queries)
  /\ UNCHANGED <<globalAnimationId, animationsByTabId, runs, timers,
                 lastRender, openTabs, storage, response, scripting>>

(***************************************************************************)
(* The browser: the user closes a tab.  A closed tab never comes back (tab *)
(* ids are not reused).                                                    *)
(***************************************************************************)
\* the entry of the closed tab is deleted from the table
TabRemoved_evict(tabId) ==
  /\ tabId \in openTabs
  /\ openTabs' = openTabs \ {tabId}
  /\ animationsByTabId' = [animationsByTabId EXCEPT ![tabId] = NoEntry]
  /\ UNCHANGED <<globalAnimationId, runs, timers, queries,
                 badge, lastRender, storage, response, scripting>>

TabRemoved(tabId) ==
  /\ tabId \in openTabs
  /\ openTabs' = openTabs \ {tabId}
  /\ UNCHANGED <<globalAnimationId, animationsByTabId, runs, timers, queries,
                 badge, lastRender, storage, response, scripting>>

Next ==
  \/ \E request \in Requests, tabId \in Tabs, url \in Urls :
       OnMessage(request, tabId, url)
  \/ \E r \in 1..Len(runs) : AfterWaitLcp(r)
  \/ \E r \in 1..Len(runs) : AfterWaitFid(r)
  \/ \E r \in 1..Len(runs) : AfterWaitCls(r)
  \/ \E r \in 1..Len(runs) : AfterWaitLoop(r)
  \/ \E r \in 1..Len(runs) : AfterDoesTabExist(r)
  \/ \E active \in Tabs : TabsQueryCallback(active)
  \/ \E tabId \in Tabs : TabRemoved(tabId)

Spec == Init /\ [][Next]_vars

TypeOK ==
  /\ globalAnimationId \in 0..MaxGen
  /\ \A t \in Tabs : animationsByTabId[t] \in (0..MaxGen) \cup {NoEntry}
  /\ \A r \in 1..Len(runs) : runs[r].pc \in Suspended \cup Returned

----------------------------------------------------------------------------
(* Properties *)

Runs == 1..Len(runs)

\* the run the listener started last for tab t, 0 if there is none
LastRunOf(t) ==
  IF \E r \in Runs : runs[r].tabId = t
  THEN CHOOSE r \in Runs : runs[r].tabId = t /\ ~Superseded(runs, r)
  ELSE 0

\* a metric reading fails iff its value is above the threshold of the metric
Threshold(metric) ==
  CASE metric = "lcp" -> LCP_THRESHOLD
    [] metric = "fid" -> FID_THRESHOLD
    [] metric = "cls" -> CLS_THRESHOLD

(* C1: Monotonic supersession.  After any number of starts for a tab, the  *)
(* table holds the generation of the run started last for the tab, and no  *)
(* earlier run of the tab has made a render call after a later run was     *)
(* started.                                                                *)
C1_MonotonicSupersession ==
  /\ \A t \in Tabs : LastRunOf(t) # 0 =>
        animationsByTabId[t] = runs[LastRunOf(t)].animationId
  /\ \A r \in Runs : runs[r].late = 0

(* C2: a run renders, or goes on to a further step or iteration, only      *)
(* while its generation is the one the table holds for its tab.            *)
C2_OnlyCurrentRunActs == \A r \in Runs : ~runs[r].stale

(* C3: once a later run was started for its tab, a run makes at most one   *)
(* more badge-changing render call.                                        *)
C3_AtMostOneLateRender == \A r \in Runs : runs[r].late <= 1

(* C4: Single active render stream.  The run that made the latest          *)
(* badge-changing render call for a tab is the run whose generation the    *)
(* table holds for that tab.                                               *)
C4_SingleActiveRenderStream ==
  \A t \in Tabs : lastRender[t] # NoEntry => lastRender[t] = animationsByTabId[t]

\* an older run was superseded, and the newer run of the tab has rendered
\* its overall badge and its lcp badge since
C4_Witness ==
  \E r1 \in Runs, r2 \in Runs :
    /\ r1 < r2 /\ runs[r1].tabId = runs[r2].tabId
    /\ runs[r1].pc = "superseded"
    /\ runs[r2].pc = "wait_fid"
    /\ runs[r2].request.metrics.lcp > LCP_THRESHOLD
    /\ lastRender[runs[r2].tabId] = runs[r2].animationId

(* C5: a run whose verdict is not 'POOR' has called the renderer exactly   *)
(* once (the overall badge), holds no timer, never waited for the liveness *)
(* check, entered animateBadges once and has returned, whatever its        *)
(* metrics are.                                                            *)
C5_NonFailingVerdictTerminates ==
  \A r \in Runs : runs[r].request.passesAllThresholds # "POOR" =>
    /\ runs[r].pc = "returned"
    /\ runs[r].iter = 1
    /\ runs[r].calls = 1
    /\ runs[r].animationId = runs[r].startId
    /\ \A i \in 1..Len(timers) : timers[i] # r

\* a GOOD run and a run with an unrecognised verdict, both with metrics
\* above their thresholds, have returned
C5_Witness ==
  \E r1 \in Runs, r2 \in Runs :
    /\ runs[r1].request.passesAllThresholds = "GOOD"
    /\ runs[r1].request.metrics.lcp > LCP_THRESHOLD
    /\ runs[r2].request.passesAllThresholds = "NEEDS_IMPROVEMENT"
    /\ runs[r2].request.metrics.fid > FID_THRESHOLD
    /\ runs[r1].pc = "returned" /\ runs[r2].pc = "returned"

(* C6: the callback of a badgeMetric call for lcp, fid or cls changes the  *)
(* badge of the tab, to the frame of the metric, if the value is above the *)
(* threshold of the metric, and leaves every badge as it is otherwise.     *)
C6_OnlyFailingMetricsRender ==
  [][ (queries # <<>> /\ queries' = Tail(queries)
         /\ Head(queries).fn = "badgeMetric") =>
      LET q == Head(queries)
      IN  IF q.value > Threshold(q.arg)
          THEN /\ badge'[q.tabid] # badge[q.tabid]
               /\ badge'[q.tabid].icon \in {LcpIcon, FidIcon, ClsIcon}
               /\ badge'[q.tabid].color = "#000"
               /\ \A t \in Tabs \ {q.tabid} : badge'[t] = badge[t]
          ELSE badge' = badge ]_vars

\* the lcp frame is on a tab whose run goes on with a fid value that is
\* exactly the threshold: the fid step left the lcp frame in place
C6_Witness ==
  \E r \in Runs :
    /\ runs[r].pc = "wait_cls"
    /\ queries = <<>>
    /\ runs[r].request.metrics.fid = FID_THRESHOLD
    /\ badge[runs[r].tabId].icon = LcpIcon

(* C7: Tab removal halts looping.  When the liveness check of a run finds  *)
(* its tab gone, the run returns at once: it enters no further iteration,  *)
(* allocates no generation, calls no renderer and sets no timer; once      *)
(* returned that way, the run never changes again.                         *)
C7_TabRemovalHaltsLooping ==
  [][ \A r \in Runs :
        /\ ( /\ runs[r].pc = "doesTabExist"
             /\ runs[r].tabId \notin openTabs
             /\ runs'[r] # runs[r] ) =>
           ( /\ runs'[r] = [runs[r] EXCEPT !.pc = "tabGone"]
             /\ globalAnimationId' = globalAnimationId
             /\ animationsByTabId' = animationsByTabId
             /\ queries' = queries
             /\ timers' = timers )
        /\ runs[r].pc = "tabGone" =>
           ( /\ runs'[r] = runs[r]
             /\ \A i \in 1..Len(timers') : timers'[i] # r ) ]_vars

\* a 'POOR' run has stopped at the liveness check while generations were
\* still available
C7_Witness ==
  \E r \in Runs :
    /\ runs[r].pc = "tabGone"
    /\ runs[r].request.passesAllThresholds = "POOR"
    /\ animationsByTabId[runs[r].tabId] = runs[r].animationId
    /\ globalAnimationId < MaxGen

(* C8: Looping.  A 'POOR' run whose tab is open and after which no later   *)
(* run was started for the tab has not returned: it is suspended at a      *)
(* delay or at the liveness check, on its way to the next overall render.  *)
C8_LoopsWhileCurrent ==
  \A r \in Runs :
    ( /\ runs[r].request.passesAllThresholds = "POOR"
      /\ runs[r].tabId \in openTabs
      /\ ~Superseded(runs, r) )
    => runs[r].pc \in Suspended

(* C9: a start allocates a generation larger than every generation held by *)
(* a run so far, so larger than that of any earlier run of the tab; no two *)
(* runs hold the same generation; the global counter never decreases.      *)
C9_Generations ==
  /\ [](\A r1 \in Runs, r2 \in Runs :
          /\ runs[r1].animationId < globalAnimationId
          /\ r1 < r2 => runs[r1].startId < runs[r2].startId
          /\ r1 # r2 => runs[r1].animationId # runs[r2].animationId)
  /\ [][ /\ globalAnimationId' >= globalAnimationId
         /\ Len(runs') > Len(runs) =>
              \A r \in Runs : runs[r].animationId < runs'[Len(runs')].animationId
     ]_vars

\* three runs, two of them for the same tab, one of them after a loop-back
C9_Witness ==
  /\ Len(runs) >= 2
  /\ runs[1].tabId = runs[2].tabId
  /\ runs[1].iter = 2
  /\ runs[2].startId = 1
  /\ runs[1].animationId = 2

\* the listener's effects for a message with a verdict, given the storage
\* it has to leave behind
Intake(request, tabId, store) ==
  /\ Len(runs') = Len(runs) + 1
  /\ runs'[Len(runs')].tabId = tabId
  /\ runs'[Len(runs')].request = request
  /\ runs'[Len(runs')].iter = 1
  /\ request.passesAllThresholds = "POOR" => runs'[Len(runs')].pc = "wait_lcp"
  /\ animationsByTabId'[tabId] = runs'[Len(runs')].animationId
  /\ storage' = store
  /\ response' = <<[tabId |-> tabId]>>

\* the listener's effects for a message without a verdict
NoIntake ==
  /\ UNCHANGED <<globalAnimationId, animationsByTabId, runs, timers, queries,
                 badge, lastRender, openTabs, storage>>
  /\ response' = NoResponse

\* storage with the one key set to value, all other keys as they are
StoredUnder(key, value) ==
  [k \in DOMAIN storage \cup {key} |-> IF k = key THEN value ELSE storage[k]]

(* C10 as stated: for every message with a verdict the listener starts a   *)
(* run for the sender's tab, stores the metrics under hashCode(URL) and    *)
(* responds with the tab id; a message without a verdict does nothing.     *)
C10_IntakeAlwaysStores ==
  [][ \A request \in Requests, tabId \in Tabs, url \in Urls :
        OnMessage(request, tabId, url) =>
          IF request.passesAllThresholds # Undefined
          THEN Intake(request, tabId, StoredUnder(hashCode(url), request.metrics))
          ELSE NoIntake ]_vars

(* C10, amended: as above, but the metrics are stored only when the        *)
(* sender's tab has a non-empty URL; otherwise the storage is left as it   *)
(* is, while the run is still started and the tab id still sent.           *)
C10_IntakeStoresUnderUrl ==
  [][ \A request \in Requests, tabId \in Tabs, url \in Urls :
        OnMessage(request, tabId, url) =>
          IF request.passesAllThresholds # Undefined
          THEN Intake(request, tabId,
                 IF url # <<>>
                 THEN StoredUnder(hashCode(url), request.metrics)
                 ELSE storage)
          ELSE NoIntake ]_vars

\* the listener has answered a 'POOR' message of a tab with a URL: the run
\* is still at its first delay, the metrics are stored already, and a
\* second message has overwritten an earlier value of the key
C10_Witness ==
  \E r \in Runs :
    /\ r = Len(runs) /\ r >= 2
    /\ runs[r].pc = "wait_lcp"
    /\ runs[r].iter = 1
    /\ response = <<[tabId |-> runs[r].tabId]>>
    /\ hashCode(<<104, 116>>) \in DOMAIN storage
    /\ storage[hashCode(<<104, 116>>)] = runs[r].request.metrics
    /\ runs[r - 1].request.metrics # runs[r].request.metrics

----------------------------------------------------------------------------
(* hashCode under the message listener: messages of pages whose URLs are   *)
(* long enough for the hash to leave 32 bits more than once.               *)

\* "ht", "http://a", "https://web.dev/" and the empty URL
HashUrls ==
  { <<>>,
    <<104, 116>>,
    <<104, 116, 116, 112, 58, 47, 47, 97>>,
    <<104, 116, 116, 112, 115, 58, 47, 47, 119, 101, 98, 46, 100, 101, 118, 47>> }

HashRequests ==
  { [passesAllThresholds |-> "GOOD", metrics |-> Payload1],
    [passesAllThresholds |-> "NEEDS_IMPROVEMENT", metrics |-> Payload2] }

HashNext ==
  \/ \E request \in HashRequests, tabId \in Tabs, url \in HashUrls :
       OnMessage(request, tabId, url)
  \/ \E active \in Tabs : TabsQueryCallback(active)

HashSpec == Init /\ [][HashNext]_vars

\* hash * 31 + char, wrapped to 32 bits, on the halves of hash
Times31Plus(h, char) ==
  LET lo == h[2] * 31 + char
      hi == h[1] * 31 + (lo \div Half)
  IN  <<hi % Half, lo % Half>>

RECURSIVE Fold31(_, _)
Fold31(h, str) ==
  IF str = <<>> THEN h ELSE Fold31(Times31Plus(h, Head(str)), Tail(str))

\* the decimal string of the signed 32-bit integer with the halves h
SignedDecimal(h) ==
  IF h[1] < 32768
  THEN ToString(h[1] * Half + h[2])
  ELSE "-" \o ToString((Half - 1 - h[1]) * Half + (Half - h[2]))

\* the keys of the URLs, computed by hand
KeyOf(url) ==
  CASE url = <<>> -> ""
    [] url = <<104, 116>> -> "3340"
    [] url = <<104, 116, 116, 112, 58, 47, 47, 97>> -> "-133916529"
    [] OTHER -> "563989731"

(* C11: hashCode of the empty string is the empty string; of a non-empty   *)
(* string it is the decimal string of the fold hash = hash * 31 + charCode *)
(* over the code units, wrapped to a signed 32-bit integer after each      *)
(* step; so the listener stores the metrics of a page under the one key of *)
(* its URL, and a second message of the same URL writes the same key.      *)
C11_HashCode ==
  /\ [](/\ hashCode(<<>>) = ""
        /\ \A url \in HashUrls \ {<<>>} :
             /\ hashCode(url) = SignedDecimal(Fold31(<<0, 0>>, url))
             /\ hashCode(url) = KeyOf(url)
        /\ DOMAIN storage \subseteq {KeyOf(url) : url \in HashUrls \ {<<>>}})
  /\ [][ \A request \in HashRequests, tabId \in Tabs, url \in HashUrls \ {<<>>} :
           OnMessage(request, tabId, url) =>
             /\ DOMAIN storage' = DOMAIN storage \cup {KeyOf(url)}
             /\ storage'[KeyOf(url)] = request.metrics
             /\ \A k \in DOMAIN storage \ {KeyOf(url)} : storage'[k] = storage[k]
     ]_vars

\* the metrics of the three pages are stored, two of them under keys whose
\* hash left 32 bits, one of these negative
C11_Witness ==
  /\ DOMAIN storage = {"3340", "-133916529", "563989731"}
  /\ Len(runs) = 3
  /\ storage["-133916529"] = runs[3].request.metrics

----------------------------------------------------------------------------
(* The badge texts: 'POOR' messages with values at, just below and above   *)
(* the thresholds, whose third fraction digit rounds up.                   *)

\* lcp 2500, fid 99.999, cls 0.1234
FormatPayload1 == Metrics(2500 * Scale, 100 * Scale - 10, 1234)
\* lcp 2996, fid 100.999, cls 0.1289
FormatPayload2 == Metrics(2996 * Scale, 101 * Scale - 10, 1289)

FormatRequests ==
  { [passesAllThresholds |-> "POOR", metrics |-> FormatPayload1],
    [passesAllThresholds |-> "POOR", metrics |-> FormatPayload2] }

FormatNext ==
  \/ \E request \in FormatRequests, tabId \in Tabs :
       OnMessage(request, tabId, <<104, 116>>)
  \/ \E r \in 1..Len(runs) : AfterWaitLcp(r)
  \/ \E r \in 1..Len(runs) : AfterWaitFid(r)
  \/ \E r \in 1..Len(runs) : AfterWaitCls(r)
  \/ \E r \in 1..Len(runs) : AfterWaitLoop(r)
  \/ \E r \in 1..Len(runs) : AfterDoesTabExist(r)
  \/ \E active \in Tabs : TabsQueryCallback(active)
  \/ \E tabId \in Tabs : TabRemoved(tabId)

FormatSpec == Init /\ [][FormatNext]_vars

\* a step that is the callback of the pending badgeMetric call
MetricCallback ==
  /\ queries # <<>>
  /\ queries' = Tail(queries)
  /\ Head(queries).fn = "badgeMetric"

\* the value rounded to two decimal places, lcp in seconds
TextOf(metric, value) ==
  CASE <<metric, value>> = <<"lcp", 2500 * Scale>>     -> "2.50"
    [] <<metric, value>> = <<"fid", 100 * Scale - 10>> -> "100.00"
    [] <<metric, value>> = <<"cls", 1234>>             -> "0.12"
    [] <<metric, value>> = <<"lcp", 2996 * Scale>>     -> "3.00"
    [] <<metric, value>> = <<"fid", 101 * Scale - 10>> -> "101.00"
    [] <<metric, value>> = <<"cls", 1289>>             -> "0.13"

(* C12 as stated: rendering lcp with value 2500 sets the badge text        *)
(* "2.50", cls with value 0.1234 sets "0.12", fid with value 99.999 sets   *)
(* "100.00".                                                               *)
C12_FormatsEveryValue ==
  [][ MetricCallback =>
        LET q == Head(queries)
        IN  q.value \in {2500 * Scale, 100 * Scale - 10, 1234} =>
              badge'[q.tabid].text = TextOf(q.arg, q.value) ]_vars

(* C12, amended: rendering a metric above its threshold sets the badge     *)
(* text to the value rounded, not truncated, to two decimal places, lcp in *)
(* seconds: cls 0.1234 sets "0.12", lcp 2996 sets "3.00", fid 100.999 sets *)
(* "101.00"; lcp 2500 and fid 99.999 are not above their thresholds, and   *)
(* rendering them leaves the badge text as it is.                          *)
C12_FormatsFailingValues ==
  [][ MetricCallback =>
        LET q == Head(queries)
        IN  IF q.value > Threshold(q.arg)
            THEN badge'[q.tabid].text = TextOf(q.arg, q.value)
            ELSE badge' = badge ]_vars

\* the three steps of a run with lcp 2500 and fid 99.999 are done and the
\* text of its tab is that of cls 0.1234, over the cleared text of the
\* overall badge; the other tab shows fid 100.999
C12_Witness ==
  \E r1 \in Runs, r2 \in Runs :
    /\ runs[r1].request.metrics = FormatPayload1
    /\ runs[r1].pc = "wait_loop"
    /\ runs[r2].request.metrics = FormatPayload2
    /\ runs[r2].pc = "wait_cls"
    /\ runs[r1].tabId # runs[r2].tabId
    /\ queries = <<>>
    /\ badge[runs[r1].tabId].text = "0.12"
    /\ badge[runs[r2].tabId].text = "101.00"

----------------------------------------------------------------------------
(* Rejected badge calls.  The renderers call chrome.action.setIcon,        *)
(* setBadgeText and setBadgeBackgroundColor inside the callback of         *)
(* chrome.tabs.query, without a callback, without await and without catch  *)
(* (lines 94-117, 152-205).  When the browser rejects them (the tab is     *)
(* gone, for one) the badge stays as it is and the rejection is reported   *)
(* to no code of the service worker.                                       *)

\* the callback runs again for the same call
TabsQueryCallbackRejected_retry(active) ==
  /\ queries # <<>>
  /\ queries' = Append(Tail(queries), Head(queries))
  /\ UNCHANGED <<globalAnimationId, animationsByTabId, runs, timers, badge,
                 lastRender, openTabs, storage, response, scripting>>

TabsQueryCallbackRejected(active) ==
  /\ queries # <<>>
  /\ queries' = Tail(queries)
  /\ UNCHANGED <<globalAnimationId, animationsByTabId, runs, timers, badge,
                 lastRender, openTabs, storage, response, scripting>>

RejectRequests ==
  { [passesAllThresholds |-> "POOR", metrics |-> Payload1],
    [passesAllThresholds |-> "GOOD", metrics |-> Payload1] }

RejectNext ==
  \/ \E request \in RejectRequests, tabId \in Tabs :
       OnMessage(request, tabId, <<104, 116>>)
  \/ \E r \in 1..Len(runs) : AfterWaitLcp(r)
  \/ \E r \in 1..Len(runs) : AfterWaitFid(r)
  \/ \E r \in 1..Len(runs) : AfterWaitCls(r)
  \/ \E r \in 1..Len(runs) : AfterWaitLoop(r)
  \/ \E r \in 1..Len(runs) : AfterDoesTabExist(r)
  \/ \E active \in Tabs : TabsQueryCallback(active)
  \/ \E active \in Tabs : TabsQueryCallbackRejected(active)
  \/ \E tabId \in Tabs : TabRemoved(tabId)

RejectSpec == Init /\ [][RejectNext]_vars

\* the number of timers run r holds
TimersOf(r) == Cardinality({i \in 1..Len(timers) : timers[i] = r})

\* the pc after the step of a run whose animationId is current
NextPc(pc) ==
  CASE pc = "wait_lcp"  -> "wait_fid"
    [] pc = "wait_fid"  -> "wait_cls"
    [] pc = "wait_cls"  -> "wait_loop"
    [] pc = "wait_loop" -> "doesTabExist"

(* C13: a render whose icon/badge calls are rejected never terminates the  *)
(* run and is reported to nothing: the step with the rejection changes no  *)
(* run, no timer, no generation and no badge, and makes no render call     *)
(* again; the run keeps its one timer and, when it fires with the run      *)
(* current, goes on to its next step whatever the badge shows.             *)
C13_RejectedRenderIsSwallowed ==
  /\ [](\A r \in Runs :
          /\ runs[r].pc \in Suspended \ {"doesTabExist"} => TimersOf(r) = 1
          /\ runs[r].pc \notin Suspended \ {"doesTabExist"} => TimersOf(r) = 0)
  /\ [][ /\ \A active \in Tabs : TabsQueryCallbackRejected(active) =>
              /\ Len(queries') < Len(queries)
              /\ UNCHANGED <<runs, timers, globalAnimationId,
                             animationsByTabId, badge>>
         /\ \A r \in Runs :
              ( /\ runs[r].pc \in Suspended \ {"doesTabExist"}
                /\ runs'[r].pc # runs[r].pc
                /\ animationsByTabId[runs[r].tabId] = runs[r].animationId )
              => runs'[r].pc = NextPc(runs[r].pc)
     ]_vars

\* the overall render and the lcp render of a run were both rejected (the
\* tab still shows the icon of the manifest), and the run has gone on to
\* its fid step and on to the delay before cls
C13_Witness ==
  \E r \in Runs :
    /\ runs[r].pc = "wait_cls"
    /\ runs[r].calls = 3
    /\ queries = <<>>
    /\ runs[r].tabId \in openTabs
    /\ \A r2 \in Runs : runs[r2].tabId = runs[r].tabId => r2 = r
    /\ badge[runs[r].tabId].icon = ManifestIcon

----------------------------------------------------------------------------
\* the metric whose step follows the delay a run is suspended at
MetricAt(pc) ==
  CASE pc = "wait_lcp" -> "lcp"
    [] pc = "wait_fid" -> "fid"
    [] pc = "wait_cls" -> "cls"

\* the badgeMetric call of the step of run r after the delay it is at
MetricCall(r) ==
  [fn |-> "badgeMetric", arg |-> MetricAt(runs[r].pc),
   value |-> runs[r].request.metrics[MetricAt(runs[r].pc)],
   tabid |-> runs[r].tabId]

\* the badgeOverallPerf call of run r
OverallCall(r) ==
  [fn |-> "badgeOverallPerf", arg |-> runs[r].request.passesAllThresholds,
   value |-> 0, tabid |-> runs[r].tabId]

\* run r holds the oldest timer, which fires
TimerFires(r) == timers # <<>> /\ Head(timers) = r /\ TimersOf(r) = 1

(* C14: within one run the renders are strictly ordered: the overall       *)
(* render, then after one delay and one check of the generation the lcp    *)
(* step, then likewise the fid step, the cls step and the loop-back, which *)
(* leads to the overall render of the next iteration; no step is skipped   *)
(* or repeated: in iteration k the run has made 4(k-1)+1 render calls at   *)
(* the delay before lcp, one more at each later delay.                     *)
C14_StrictOrder ==
  /\ [](\A r \in Runs :
          LET k == 4 * (runs[r].iter - 1)
          IN  /\ runs[r].pc = "wait_lcp" => runs[r].calls = k + 1
              /\ runs[r].pc = "wait_fid" => runs[r].calls = k + 2
              /\ runs[r].pc = "wait_cls" => runs[r].calls = k + 3
              /\ runs[r].pc \in {"wait_loop", "doesTabExist"} =>
                   runs[r].calls = k + 4)
  /\ [][ /\ Len(runs') > Len(runs) =>
              /\ queries' = Append(queries,
                   [fn |-> "badgeOverallPerf",
                    arg |-> runs'[Len(runs')].request.passesAllThresholds,
                    value |-> 0, tabid |-> runs'[Len(runs')].tabId])
              /\ runs'[Len(runs')].calls = 1
         /\ \A r \in Runs : runs'[r] # runs[r] =>
              LET current == animationsByTabId[runs[r].tabId] = runs[r].animationId
              IN  CASE runs[r].pc \in {"wait_lcp", "wait_fid", "wait_cls"} ->
                         /\ TimerFires(r)
                         /\ IF current
                            THEN /\ runs'[r].pc = NextPc(runs[r].pc)
                                 /\ queries' = Append(queries, MetricCall(r))
                                 /\ timers' = Append(Tail(timers), r)
                            ELSE /\ runs'[r].pc = "superseded"
                                 /\ queries' = queries
                                 /\ timers' = Tail(timers)
                     [] runs[r].pc = "wait_loop" ->
                         /\ TimerFires(r)
                         /\ runs'[r].pc = IF current THEN "doesTabExist"
                                                     ELSE "superseded"
                         /\ queries' = queries
                         /\ timers' = Tail(timers)
                     [] runs[r].pc = "doesTabExist" ->
                         \/ /\ runs'[r].pc = "tabGone"
                            /\ queries' = queries /\ timers' = timers
                         \/ /\ runs'[r].pc = "wait_lcp"
                            /\ runs'[r].iter = runs[r].iter + 1
                            /\ queries' = Append(queries, OverallCall(r))
                            /\ timers' = Append(timers, r)
                     [] OTHER -> FALSE
     ]_vars

\* a run is in its second iteration, at the delay before the cls step,
\* with its seventh render call, that of the fid step, pending
C14_Witness ==
  \E r \in Runs :
    /\ runs[r].iter = 2
    /\ runs[r].pc = "wait_cls"
    /\ runs[r].calls = 7
    /\ queries = <<[MetricCall(r) EXCEPT !.arg = "fid",
                                         !.value = runs[r].request.metrics.fid]>>

----------------------------------------------------------------------------
\* a step that is the callback of the pending badgeOverallPerf call
OverallCallback ==
  /\ queries # <<>>
  /\ queries' = Tail(queries)
  /\ Head(queries).fn = "badgeOverallPerf"

(* C15: the overall render is made when the run starts, before any         *)
(* suspension: the step that starts the run makes the badgeOverallPerf     *)
(* call with the verdict.  Its callback maps the verdict: 'GOOD' sets the  *)
(* good icon and leaves badge text and background as they are; 'POOR' sets *)
(* the poor icon and clears the text; any other value sets the default     *)
(* icon and clears the text; the background and the other tabs' badges are *)
(* left as they are.                                                       *)
C15_OverallVerdictMapping ==
  [][ /\ Len(runs') > Len(runs) =>
           LET new == runs'[Len(runs')]
           IN  /\ queries' # <<>>
               /\ queries'[Len(queries')] =
                    [fn |-> "badgeOverallPerf",
                     arg |-> new.request.passesAllThresholds,
                     value |-> 0, tabid |-> new.tabId]
               /\ new.calls = 1 /\ new.iter = 1
      /\ OverallCallback =>
           LET q == Head(queries)
               b == badge[q.tabid]
           IN  /\ badge'[q.tabid] =
                    CASE q.arg = "GOOD" ->
                           [icon |-> FastIcon, text |-> b.text, color |-> b.color]
                      [] q.arg = "POOR" ->
                           [icon |-> SlowIcon, text |-> "", color |-> b.color]
                      [] OTHER ->
                           [icon |-> DefaultIcon, text |-> "", color |-> b.color]
               /\ \A t \in Tabs \ {q.tabid} : badge'[t] = badge[t]
    ]_vars

\* a 'GOOD' run has returned and its tab shows the good icon over the text
\* and the background an earlier lcp render has left there
C15_Witness ==
  \E r \in Runs :
    /\ r = Len(runs)
    /\ runs[r].request.passesAllThresholds = "GOOD"
    /\ queries = <<>>
    /\ badge[runs[r].tabId] = [icon |-> FastIcon, text |-> "3.00", color |-> "#000"]

----------------------------------------------------------------------------
\* the step enters animateBadges for run r: the listener starts the run, or
\* the run calls animateBadges again after its liveness check
Enters(r) == r > Len(runs) \/ runs'[r].iter = runs[r].iter + 1

(* C16: the table and the global counter are written only by a step that   *)
(* enters animateBadges, which sets the entry of the run's tab to the      *)
(* generation it takes from the counter; a step that wakes a run from a    *)
(* delay, checks its generation, calls a renderer, runs a render callback, *)
(* finds the tab gone or closes a tab leaves both as they are.  An entry   *)
(* is overwritten and never removed: a tab that has an entry keeps one,    *)
(* and the table holds one value per tab.                                  *)
C16_TableWrittenOnlyAtStart ==
  /\ [](DOMAIN animationsByTabId = Tabs)
  /\ [][ /\ ( \/ animationsByTabId' # animationsByTabId
              \/ globalAnimationId' # globalAnimationId ) =>
              \E r \in 1..Len(runs') :
                /\ Enters(r)
                /\ runs'[r].animationId = globalAnimationId
                /\ globalAnimationId' = globalAnimationId + 1
                /\ animationsByTabId' =
                     [animationsByTabId EXCEPT ![runs'[r].tabId] = globalAnimationId]
         /\ ( \/ \E r \in Runs : /\ runs[r].pc \in Suspended \ {"doesTabExist"}
                                 /\ runs'[r] # runs[r]
              \/ \E r \in Runs : runs[r].pc # "tabGone" /\ runs'[r].pc = "tabGone"
              \/ Len(queries') < Len(queries)
              \/ openTabs' # openTabs ) =>
              UNCHANGED <<animationsByTabId, globalAnimationId>>
         /\ \A t \in Tabs :
              animationsByTabId[t] # NoEntry => animationsByTabId'[t] # NoEntry
     ]_vars

\* both tabs have an entry; one entry was overwritten when the run of its
\* tab entered animateBadges a second time, the other is that of a closed
\* tab whose run has found the tab gone
C16_Witness ==
  \E r1 \in Runs, r2 \in Runs :
    /\ runs[r1].tabId # runs[r2].tabId
    /\ runs[r1].iter = 2
    /\ runs[r1].pc = "wait_fid"
    /\ animationsByTabId[runs[r1].tabId] = runs[r1].animationId
    /\ runs[r1].animationId # runs[r1].startId
    /\ runs[r2].pc = "tabGone"
    /\ runs[r2].tabId \notin openTabs
    /\ animationsByTabId[runs[r2].tabId] = runs[r2].animationId

----------------------------------------------------------------------------
(* Progress.  The browser fires every timer that was set, delivers the     *)
(* callback of every chrome.tabs.query call and of every chrome.tabs.get   *)
(* call; messages and tab removals may or may not happen.                  *)

LiveRequests ==
  { [passesAllThresholds |-> "POOR", metrics |-> Payload1],
    [passesAllThresholds |-> "GOOD", metrics |-> Payload1] }

LiveNext ==
  \/ \E request \in LiveRequests, tabId \in Tabs :
       OnMessage(request, tabId, <<104, 116>>)
  \/ \E r \in 1..Len(runs) : AfterWaitLcp(r)
  \/ \E r \in 1..Len(runs) : AfterWaitFid(r)
  \/ \E r \in 1..Len(runs) : AfterWaitCls(r)
  \/ \E r \in 1..Len(runs) : AfterWaitLoop(r)
  \/ \E r \in 1..Len(runs) : AfterDoesTabExist(r)
  \/ \E active \in Tabs : TabsQueryCallback(active)
  \/ \E tabId \in Tabs : TabRemoved(tabId)

\* the timer of run r fires and the continuation of the run is executed
TimerTask(r) ==
  /\ r \in 1..Len(runs)
  /\ AfterWaitLcp(r) \/ AfterWaitFid(r) \/ AfterWaitCls(r) \/ AfterWaitLoop(r)

\* the callback of chrome.tabs.get is delivered to run r
TabsGetTask(r) == r \in 1..Len(runs) /\ AfterDoesTabExist(r)

LiveSpec ==
  /\ Init /\ [][LiveNext]_vars
  /\ \A r \in 1..MaxGen : WF_vars(TimerTask(r)) /\ WF_vars(TabsGetTask(r))
  /\ WF_vars(\E active \in Tabs : TabsQueryCallback(active))

\* every run of tab t has returned and holds no timer
AllReturned(t) ==
  \A r \in Runs : runs[r].tabId = t =>
    runs[r].pc \in Returned /\ TimersOf(r) = 0

(* C17: once tab T is closed (a closed tab stays closed, and no message    *)
(* starts a run for it), every run of T eventually returns and leaves no   *)
(* timer behind, provided timers fire and callbacks are delivered.  The    *)
(* liveness of the tab is consulted only at the loop-back: a run whose tab *)
(* is closed still takes the metric steps left in its iteration, and finds *)
(* the tab gone only at the liveness check.                                *)
C17_ClosedTabRunsTerminate ==
  /\ \A t \in Tabs : (t \notin openTabs) ~> AllReturned(t)
  /\ [][ \A r \in Runs :
           /\ ( /\ runs[r].tabId \notin openTabs
                /\ runs[r].pc \in Suspended \ {"doesTabExist"}
                /\ runs'[r] # runs[r]
                /\ animationsByTabId[runs[r].tabId] = runs[r].animationId )
              => /\ runs'[r].pc = NextPc(runs[r].pc)
                 /\ runs'[r].calls =
                      IF runs[r].pc = "wait_loop" THEN runs[r].calls
                                                  ELSE runs[r].calls + 1
           /\ ( runs[r].pc # "tabGone" /\ runs'[r].pc = "tabGone" )
              => runs[r].pc = "doesTabExist" /\ runs[r].tabId \notin openTabs
           /\ runs[r].tabId \notin openTabs => runs[r].tabId \notin openTabs'
     ]_vars

\* both runs of a closed tab have returned, the first superseded, the
\* second at its liveness check after all steps of its iteration, and no
\* timer is left
C17_Witness ==
  \E r1 \in Runs, r2 \in Runs :
    /\ r1 < r2
    /\ runs[r1].tabId = runs[r2].tabId
    /\ runs[r1].tabId \notin openTabs
    /\ runs[r1].pc = "superseded"
    /\ runs[r2].pc = "tabGone"
    /\ runs[r2].calls = 4
    /\ timers = <<>>
    /\ globalAnimationId = 2

----------------------------------------------------------------------------
(* The tab listeners (lines 43-75).                                        *)

\* String.prototype.startsWith on code units
StartsWith(str, prefix) ==
  /\ Len(str) >= Len(prefix)
  /\ SubSeq(str, 1, Len(prefix)) = prefix

\* 'http'
Http == <<104, 116, 116, 112>>

\* getWebVitals(tabId), lines 43-51: the one executeScript call
getWebVitals(tabId) == <<[tabId |-> tabId]>>

\* the condition of lines 64-68 without tab.active
ShouldMeasure_anyTab(status, url, active) ==
  status = "complete" /\ StartsWith(url, Http)

\* changeInfo.status == 'complete' && tab.url.startsWith('http') && tab.active
ShouldMeasure(status, url, active) ==
  status = "complete" /\ StartsWith(url, Http) /\ active

(***************************************************************************)
(* chrome.tabs.onUpdated listener (lines 54-70).  url = <<>> also stands   *)
(* for a tab without url: tab.url.startsWith throws after the store, and   *)
(* no script is executed.                                                  *)
(***************************************************************************)
OnUpdated(tabId, status, url, active) ==
  /\ tabId \in openTabs
  /\ storage' = StorageSet(storage, ToString(tabId), ~active)
  /\ scripting' = IF ShouldMeasure(status, url, active)
                  THEN getWebVitals(tabId) ELSE << >>
  /\ UNCHANGED <<globalAnimationId, animationsByTabId, runs, timers, queries,
                 badge, lastRender, openTabs, response>>

(***************************************************************************)
(* chrome.tabs.onActivated listener (lines 73-75).                         *)
(***************************************************************************)
OnActivated(tabId) ==
  /\ tabId \in openTabs
  /\ scripting' = getWebVitals(tabId)
  /\ UNCHANGED <<globalAnimationId, animationsByTabId, runs, timers, queries,
                 badge, lastRender, openTabs, storage, response>>

\* changeInfo.status
Statuses == {"loading", "complete", Undefined}

\* '', 'ht', 'ahttp', 'http:'
NavUrls ==
  { <<>>,
    <<104, 116>>,
    <<97, 104, 116, 116, 112>>,
    <<104, 116, 116, 112, 58>> }

NavRequests == { [passesAllThresholds |-> "GOOD", metrics |-> Payload1] }

NavNext ==
  \/ \E tabId \in Tabs, status \in Statuses, url \in NavUrls, active \in BOOLEAN :
       OnUpdated(tabId, status, url, active)
  \/ \E tabId \in Tabs : OnActivated(tabId)
  \/ \E request \in NavRequests, tabId \in Tabs :
       OnMessage(request, tabId, <<104, 116, 116, 112, 58>>)
  \/ \E active \in Tabs : TabsQueryCallback(active)
  \/ \E tabId \in Tabs : TabRemoved(tabId)

NavSpec == Init /\ [][NavNext]_vars

\* the tab id as a string
TabKey(tabId) ==
  CASE tabId = 1 -> "1" [] tabId = 2 -> "2" [] tabId = 3 -> "3" [] tabId = 4 -> "4"

\* the URLs of NavUrls that start with 'http'
HttpUrls == { <<104, 116, 116, 112, 58>> }

(* C18: on every tab-updated event the listener stores under the key      *)
(* tabId (as a string) the boolean 'loaded in background', FALSE when the  *)
(* tab is active and TRUE otherwise, and leaves the other keys as they     *)
(* are; it triggers the measurement of the tab exactly when the status is  *)
(* 'complete', the URL starts with 'http' and the tab is active.  A        *)
(* tab-activated event triggers the measurement of its tab always, and     *)
(* stores nothing.                                                         *)
C18_TabEvents ==
  [][ /\ \A tabId \in Tabs, status \in Statuses, url \in NavUrls, active \in BOOLEAN :
           OnUpdated(tabId, status, url, active) =>
             /\ DOMAIN storage' = DOMAIN storage \cup {TabKey(tabId)}
             /\ storage'[TabKey(tabId)] = ~active
             /\ \A k \in DOMAIN storage \ {TabKey(tabId)} : storage'[k] = storage[k]
             /\ IF status = "complete" /\ url \in HttpUrls /\ active
                THEN scripting' = <<[tabId |-> tabId]>>
                ELSE scripting' = << >>
      /\ \A tabId \in Tabs :
           OnActivated(tabId) =>
             /\ scripting' = <<[tabId |-> tabId]>>
             /\ storage' = storage
    ]_vars

\* tab 1 was updated while active, tab 2 while in the background, beside
\* the metrics of a page; the last event triggered no measurement
C18_Witness ==
  /\ DOMAIN storage = {"1", "2", hashCode(<<104, 116, 116, 112, 58>>)}
  /\ storage["1"] = FALSE
  /\ storage["2"] = TRUE
  /\ scripting = << >>

----------------------------------------------------------------------------
\* sequence s begins with sequence p
IsPrefix(p, s) == Len(p) <= Len(s) /\ SubSeq(s, 1, Len(p)) = p

(* C19: Tab isolation.  A step that enters animateBadges for tab A (a      *)
(* start by the listener or a loop-back of a run of A) changes nothing of  *)
(* another tab B: the entry of B in the table, the runs of B, their timers *)
(* and their pending render calls stay as they are.  So a run is only ever *)
(* superseded by an entry for its own tab, and a run of B whose generation *)
(* is current before the step is current after it.                         *)
C19_TabIsolation ==
  /\ [](\A r \in Runs : runs[r].pc = "superseded" =>
          \E r2 \in Runs : r2 # r /\ runs[r2].tabId = runs[r].tabId)
  /\ [][ \A r \in 1..Len(runs') : Enters(r) =>
           \A B \in Tabs \ {runs'[r].tabId} :
             /\ animationsByTabId'[B] = animationsByTabId[B]
             /\ lastRender'[B] = lastRender[B]
             /\ badge'[B] = badge[B]
             /\ \A rb \in Runs : runs[rb].tabId = B =>
                  /\ runs'[rb] = runs[rb]
                  /\ TimersOf(rb)' = TimersOf(rb)
             /\ IsPrefix(timers, timers')
             /\ IsPrefix(queries, queries')
     ]_vars

\* starts on tab A and tab B were interleaved: the first run of A was
\* superseded by the third start, while the run of B, started between the
\* two, is still current and has made its lcp and fid steps
C19_Witness ==
  /\ Len(runs) = 3
  /\ runs[1].tabId = runs[3].tabId
  /\ runs[2].tabId # runs[1].tabId
  /\ runs[1].pc = "superseded"
  /\ runs[2].pc = "wait_cls"
  /\ runs[2].iter = 1
  /\ animationsByTabId[runs[2].tabId] = runs[2].animationId
  /\ lastRender[runs[2].tabId] = runs[2].animationId
  /\ runs[3].pc = "wait_lcp"

----------------------------------------------------------------------------
(* Tab id 0.  The same program with a tab whose id is 0 among the open     *)
(* tabs: sender.tab.id is handed to the renderers as tabid, and the        *)
(* renderers take a tabid of 0 as absent (lines 90, 135).                  *)

ZeroTabs == 0..(MaxTab - 1)

ZeroInit ==
  /\ globalAnimationId = 0
  /\ animationsByTabId = [t \in ZeroTabs |-> NoEntry]
  /\ runs = <<>>
  /\ timers = <<>>
  /\ queries = <<>>
  /\ badge = [t \in ZeroTabs |->
               [icon |-> ManifestIcon, color |-> BrowserColor, text |-> ""]]
  /\ lastRender = [t \in ZeroTabs |-> NoEntry]
  /\ openTabs = ZeroTabs
  /\ storage = << >>
  /\ response = NoResponse
  /\ scripting = << >>

ZeroRequests ==
  { [passesAllThresholds |-> "POOR", metrics |-> Payload1],
    [passesAllThresholds |-> "GOOD", metrics |-> Payload1] }

ZeroNext ==
  \/ \E request \in ZeroRequests, tabId \in ZeroTabs :
       OnMessage(request, tabId, <<104, 116>>)
  \/ \E r \in 1..Len(runs) : AfterWaitLcp(r)
  \/ \E r \in 1..Len(runs) : AfterWaitFid(r)
  \/ \E r \in 1..Len(runs) : AfterWaitCls(r)
  \/ \E r \in 1..Len(runs) : AfterWaitLoop(r)
  \/ \E r \in 1..Len(runs) : AfterDoesTabExist(r)
  \/ \E active \in ZeroTabs : TabsQueryCallback(active)
  \/ \E tabId \in ZeroTabs : TabRemoved(tabId)

ZeroSpec == ZeroInit /\ [][ZeroNext]_vars

(* C20: every render issued by a run for tab T, tab id 0 included, changes *)
(* the icon, badge text and badge colour of tab T only: the callback of a  *)
(* render call for T leaves the badge of every other tab, the active one   *)
(* too, as it is.                                                          *)
C20_RendersOwnTabOnly ==
  [][ (queries # <<>> /\ queries' = Tail(queries)) =>
        \A t \in DOMAIN badge \ {Head(queries).tabid} : badge'[t] = badge[t]
    ]_vars

====
